---------------------------- MODULE Spec2Model ----------------------------
(*
  Iterative magnitude pruning (src/src/iterative_pruning.py).

  The model follows the script from its __main__ block into
  prune_iteratively and through the 31 pruning rounds.  Every action is one
  block of statements of the script; its name says which.

  Numbers.  Weights are small integers.  A percentile of the sparsity
  schedule is a fraction scaled by FScale, and a threshold is kept scaled by
  FScale too, so that numpy's linear interpolation is exact.  A learning
  rate is an integer number of 1e-7 units.  A test loss is an integer number
  of 1e-4 units and a test accuracy an integer number of 1e-3 percent, which
  is what round(x, 4) and round(x, 3) leave.

  What is outside the repository's file.  The network, the loss and the
  optimizer arithmetic are abstracted: the loss of a batch is the squared
  distance of the parameters to the batch's target, and one optimizer step
  is a gradient step on that loss, which takes every parameter to the target
  (sgd) or past it (adam), so that the update of a pruned position is nonzero
  whenever the target is.
  get_weight_fractions, permute_masks and load_weights live in utils.py,
  which is not part of the source at hand; they are modelled from their
  description.
*)
EXTENDS Integers, Sequences, FiniteSets, TLC

VARIABLES
    args,               \* parsed command line (line 170)
    dataset_files,      \* what load_dataset finds for the target dataset
    fresh_params,       \* the parameters load_model constructs
    init_snapshot,      \* the file at init_path
    dataloader_train,   \* line 182
    dataloader_test,    \* line 183
    num_classes_source, \* lines 186-191
    num_classes_target, \* lines 193-198
    model,              \* the model's named parameters, in traversal order
    is_equal_classes,   \* last argument of prune_iteratively
    num_epochs,         \* lines 35, 38
    lr_anneal_epochs,   \* lines 36, 39
    optimizer,          \* lines 52, 54
    pruning_iter,       \* line 49
    epoch,              \* line 91
    last_epoch,         \* line 92
    batch_num,          \* line 96
    masks,              \* line 62
    threshold,          \* line 68 (scaled by FScale)
    zeros,              \* line 70
    total,              \* line 71
    store,              \* the files under models_path, by (round, epoch)
    test_accuracys,     \* line 48
    test_losses,        \* line 48
    rng,                \* state of the seeded generator (line 173)
    pc,                 \* the statement the script is at
    error,              \* the message of the exception that ended the run
    did,                \* kinds of effect that have happened so far
    round_log,          \* the orchestrator's steps in the current round
    epochs_run,         \* epochs completed, round by round
    writes,             \* number of torch.save calls per key
    returns,            \* what test() returned, evaluation by evaluation
    reported            \* lines 131-132

vars == <<args, dataset_files, fresh_params, init_snapshot, dataloader_train,
          dataloader_test, num_classes_source, num_classes_target, model,
          is_equal_classes, num_epochs, lr_anneal_epochs, optimizer,
          pruning_iter, epoch, last_epoch, batch_num, masks, threshold, zeros,
          total, store, test_accuracys, test_losses, rng, pc, error, did,
          round_log, epochs_run, writes, returns, reported>>

(***************************************************************************)
(* Program constants                                                       *)
(***************************************************************************)
LastRound == 30
VggEpochs == 160
ResnetEpochs == 90
VggAnneal == {80, 120}
ResnetAnneal == {50, 65, 80}
SgdLr == 1000000
AdamLr == 3000
LrAnnealFactor == 10
EvalDenseRounds == 7
EvalStride == 3
SmallClassCount == 10
LargeClassCount == 100
SmallClassDatasets == {"cifar10", "svhn", "fashionmnist"}
LargeClassDatasets == {"cifar100"}
LossDigits == 10000
AccuracyDigits == 1000

(***************************************************************************)
(* Bounds of the model                                                     *)
(***************************************************************************)
MaxPattern == 3
MaxSeed == 1

FScale == 1000000
RngModulus == 16

(***************************************************************************)
(* The model's parameters: named tensors in named_parameters() order       *)
(***************************************************************************)
ParamNames ==
    << [layer |-> "features",   kind |-> "weight"],
       [layer |-> "features",   kind |-> "bias"],
       [layer |-> "classifier", kind |-> "weight"],
       [layer |-> "classifier", kind |-> "bias"] >>

ParamSizes == <<3, 1, 2, 1>>

ParamIdx == 1..Len(ParamNames)

\* "weight" in name
IsWeight(i) == ParamNames[i].kind = "weight"

\* the indices of the prunable tensors, in traversal order
RECURSIVE WeightIdxFrom(_)
WeightIdxFrom(i) ==
    IF i > Len(ParamNames) THEN <<>>
    ELSE IF IsWeight(i) THEN <<i>> \o WeightIdxFrom(i + 1)
    ELSE WeightIdxFrom(i + 1)

WeightIdx == WeightIdxFrom(1)

Abs(x) == IF x < 0 THEN -x ELSE x

Min(a, b) == IF a < b THEN a ELSE b

(***************************************************************************)
(* Tensors as sequences of integers                                        *)
(***************************************************************************)
\* params.data.mul_(mask): elementwise product
Mul(t, m) == [j \in 1..Len(t) |-> t[j] * m[j]]

\* layer_weights.flatten(), concatenated over the prunable tensors (64-67)
RECURSIVE FlattenFrom(_, _)
FlattenFrom(m, k) ==
    IF k > Len(WeightIdx) THEN <<>>
    ELSE m[WeightIdx[k]] \o FlattenFrom(m, k + 1)

flat_model_weights(m) == FlattenFrom(m, 1)

AbsSeq(s) == [j \in 1..Len(s) |-> Abs(s[j])]

\* the k-th smallest element of a (k = 1 the smallest), as the partition of
\* np.percentile finds it
KthSmallest(a, k) ==
    CHOOSE v \in {a[j] : j \in 1..Len(a)} :
        /\ Cardinality({j \in 1..Len(a) : a[j] < v}) < k
        /\ Cardinality({j \in 1..Len(a) : a[j] <= v}) >= k

\* np.percentile(a, q) with the default linear interpolation, q = 100*f/FScale;
\* the result is scaled by FScale
Percentile(a, f) ==
    LET n   == Len(a)
        pos == (n - 1) * f
        lo  == pos \div FScale
        rem == pos % FScale
        hi  == IF lo + 1 < n THEN lo + 1 ELSE lo
    IN  KthSmallest(a, lo + 1) * FScale
          + (KthSmallest(a, hi + 1) - KthSmallest(a, lo + 1)) * rem

(***************************************************************************)
(* utils.get_weight_fractions: the cumulative share pruned by round i,     *)
(* 1 - 0.8^i, scaled by FScale                                             *)
(***************************************************************************)
RECURSIVE KeptShare(_)
KeptShare(i) == IF i = 0 THEN FScale ELSE (KeptShare(i - 1) * 4) \div 5

weight_fractions == [i \in 0..LastRound |-> FScale - KeptShare(i)]

(***************************************************************************)
(* Mask Builder (lines 62-81)                                              *)
(***************************************************************************)
\* line 68
Threshold(m, i) == Percentile(AbsSeq(flat_model_weights(m)), weight_fractions[i])

\* line 75: weight_copy.gt(threshold).float(), weight_copy = |w| (line 74)
Gt(w, thr) == IF Abs(w) * FScale > thr THEN 1 ELSE 0

\* lines 74-75 for one tensor
LayerMask(t, thr) == [j \in 1..Len(t) |-> Gt(t[j], thr)]

\* line 76 counting the entries that are kept
NonzeroCount(mask) == Cardinality({j \in 1..Len(mask) : mask[j] # 0})

\* mask.numel() - mask.nonzero().size(0)
ZeroCount(mask) == Cardinality({j \in 1..Len(mask) : mask[j] = 0})

(***************************************************************************)
(* utils.permute_masks: every mask of the list is shuffled, keeping its    *)
(* shape and its number of ones; the shuffle is drawn from the seeded      *)
(* generator.  A shuffle is modelled as a rotation by a drawn amount.      *)
(***************************************************************************)
NextRng(r) == (5 * r + 3) % RngModulus

Rotate(mask, r) ==
    LET n == Len(mask) IN [j \in 1..n |-> mask[((j - 1 + r) % n) + 1]]

RECURSIVE PermuteFrom(_, _, _)
PermuteFrom(ms, k, r) ==
    IF k > Len(ms) THEN <<>>
    ELSE <<Rotate(ms[k], r)>> \o PermuteFrom(ms, k + 1, NextRng(r))

permute_masks(ms, r) == PermuteFrom(ms, 1, r)

RECURSIVE RngAfter(_, _)
RngAfter(r, n) == IF n = 0 THEN r ELSE RngAfter(NextRng(r), n - 1)

\* lines 72-80: the loop over the prunable tensors; acc carries masks, zeros,
\* total and the generator
RECURSIVE BuildFrom(_, _, _, _, _)
BuildFrom(m, thr, k, rnd, acc) ==
    IF k > Len(WeightIdx) THEN acc
    ELSE
      LET mask     == LayerMask(m[WeightIdx[k]], thr)
          appended == Append(acc.masks, mask)
          permuted == rnd # "false"
      IN  BuildFrom(m, thr, k + 1, rnd,
            [masks |-> IF permuted THEN permute_masks(appended, acc.rng)
                       ELSE appended,
             zeros |-> acc.zeros + ZeroCount(mask),
             total |-> acc.total + Len(mask),
             rng   |-> IF permuted THEN RngAfter(acc.rng, Len(appended))
                       ELSE acc.rng])

\* lines 102-107 and 115-120: multiply every prunable tensor by its mask
RECURSIVE LayerIndex(_, _)
LayerIndex(i, k) == IF WeightIdx[k] = i THEN k ELSE LayerIndex(i, k + 1)

\* lines 103-107 without line 107: layer_index stays 0
ApplyFirstMask(m, ms) ==
    [i \in ParamIdx |-> IF IsWeight(i) THEN Mul(m[i], ms[1]) ELSE m[i]]

ApplyMasks(m, ms) ==
    [i \in ParamIdx |-> IF IsWeight(i) THEN Mul(m[i], ms[LayerIndex(i, 1)])
                        ELSE m[i]]

\* lines 102-107 with the test pruning_iter > 1
MaskedInputAfterFirst(m, ms, i) == IF i > 1 THEN ApplyMasks(m, ms) ELSE m

\* lines 102-107: before the forward pass, in every round but the first
MaskedInput(m, ms, i) == IF i # 0 THEN ApplyMasks(m, ms) ELSE m

\* line 121 reached without lines 115-120
FinalMaskedNot(m, ms, i) == m

\* lines 115-120: before the checkpoint, in every round but the first
FinalMasked(m, ms, i) == IF i # 0 THEN ApplyMasks(m, ms) ELSE m

(***************************************************************************)
(* The abstract network: loss, gradient, prediction                        *)
(***************************************************************************)
RECURSIVE SumSeq(_)
SumSeq(s) == IF s = <<>> THEN 0 ELSE Head(s) + SumSeq(Tail(s))

\* criterion(model(inputs), labels): squared distance to the batch's target
ModelLoss(m, batch) ==
    SumSeq([i \in ParamIdx |->
        SumSeq([j \in 1..Len(m[i]) |->
            (m[i][j] - batch.target[i][j]) * (m[i][j] - batch.target[i][j])])])

\* loss.backward(): the gradient of that loss (halved)
Gradient(m, batch) ==
    [i \in ParamIdx |-> [j \in 1..Len(m[i]) |-> m[i][j] - batch.target[i][j]]]

\* the length of a step in units of the loss's curvature: an sgd step lands
\* on the batch's target, an adam step overshoots it to its mirror image
StepGain(opt) == IF opt.type = "adam" THEN 2 ELSE 1

\* optimizer.step(): every parameter, pruned or not, moves against its gradient
OptimizerStep(m, batch, opt) ==
    LET g == Gradient(m, batch)
    IN  [i \in ParamIdx |-> [j \in 1..Len(m[i]) |->
            m[i][j] - StepGain(opt) * g[i][j]]]

\* (predicted == labels).sum(): a sample is predicted right when the
\* prunable weight at its position agrees with the batch's target
ModelCorrect(m, batch) ==
    LET w == flat_model_weights(m)
        t == flat_model_weights(batch.target)
    IN  Cardinality({j \in 1..Min(batch.size, Len(w)) : w[j] = t[j]})

(***************************************************************************)
(* test (lines 135-165)                                                    *)
(***************************************************************************)
\* round(num / den, digits) as an integer number of 1/scale units; Python
\* rounds a tie to the even neighbour
RoundDiv(num, den) ==
    LET q == num \div den
        r == num % den
    IN  IF 2 * r > den \/ (2 * r = den /\ q % 2 = 1) THEN q + 1 ELSE q

RECURSIVE TestLoop(_, _, _, _)
TestLoop(m, loader, k, acc) ==
    IF k > Len(loader) THEN acc
    ELSE TestLoop(m, loader, k + 1,
           [correct    |-> acc.correct + ModelCorrect(m, loader[k]),
            total      |-> acc.total + loader[k].size,
            total_loss |-> acc.total_loss + ModelLoss(m, loader[k])])

test(m, loader) ==
    LET acc == TestLoop(m, loader, 1, [correct |-> 0, total |-> 0, total_loss |-> 0])
    IN  [test_loss     |-> RoundDiv(acc.total_loss * LossDigits, acc.total),
         test_accuracy |-> RoundDiv(acc.correct * 100 * AccuracyDigits, acc.total)]

(***************************************************************************)
(* utils.load_weights: the snapshot's values go into the model; when the   *)
(* class counts differ the classification layer keeps its current values   *)
(***************************************************************************)
load_weights(m, snapshot, equal_classes) ==
    [i \in ParamIdx |->
        IF ~equal_classes /\ ParamNames[i].layer = "classifier" THEN m[i]
        ELSE snapshot[i]]

(***************************************************************************)
(* Inputs                                                                  *)
(***************************************************************************)
\* parameter sets: features.weight, features.bias, classifier.weight,
\* classifier.bias.  The first has three weights tied at the smallest
\* magnitude, the second a zero weight and a tie, the third five distinct
\* magnitudes, the fourth one magnitude only.
Patterns ==
    << << <<1, -1, 1>>,  <<1>>,  <<2, -2>>, <<0>> >>,
       << <<-2, 1, 0>>,  <<-1>>, <<3, -1>>, <<1>> >>,
       << <<3, -1, 2>>,  <<0>>,  <<-4, 5>>, <<2>> >>,
       << <<2, 2, -2>>,  <<1>>,  <<2, 2>>,  <<-1>> >>,
       << <<0, 1, -3>>,  <<2>>,  <<0, 4>>,  <<1>> >> >>

Pattern(k) == Patterns[((k - 1) % Len(Patterns)) + 1]

FreshParams == << <<1, 1, -1>>, <<0>>, <<-1, 1>>, <<0>> >>

SnapshotA == << <<0, 2, -1>>, <<1>>, <<1, -3>>, <<0>> >>
SnapshotB == << <<-1, 0, 0>>, <<2>>, <<2, 1>>,  <<-2>> >>
Snapshots == {SnapshotA, SnapshotB}

TrainBatch(k) == [target |-> Pattern(k)]

TestBatch(k, n) == [target |-> Pattern(k), size |-> n]

Architectures == {"vgg19", "resnet50", "alexnet"}
Optimizers == {"sgd", "adam", "rmsprop"}
Datasets == {"cifar10", "cifar100", "imagenet"}
RandomFlags == {"false", "true"}

KnownDataset(d) == d \in SmallClassDatasets \cup LargeClassDatasets

\* lines 34-41
KnownArchitecture(a) == a \in {"vgg19", "resnet50"}

\* lines 51-54 without the else of lines 55-56
KnownOptimizerNoElse(o) == TRUE

\* lines 51-56
KnownOptimizer(o) == o \in {"sgd", "adam"}

\* the names the configuration layer documents
Supported(a) ==
    /\ a.architecture \in {"vgg19", "resnet50"}
    /\ a.optimizer \in {"sgd", "adam"}
    /\ a.source_dataset \in {"cifar10", "svhn", "fashionmnist", "cifar100"}
    /\ a.target_dataset \in {"cifar10", "svhn", "fashionmnist", "cifar100"}

AllArgs ==
    [architecture : Architectures, optimizer : Optimizers,
     source_dataset : Datasets, target_dataset : Datasets,
     random : RandomFlags, seed : 0..MaxSeed]

Unsupported == {a \in AllArgs : ~Supported(a) /\ a.seed = 0}

\* the supported command lines whose runs are followed to their end
Runs ==
    {a \in AllArgs :
        /\ Supported(a)
        /\ a.target_dataset = "cifar10"
        /\ \/ a.architecture = "resnet50" /\ a.optimizer = "adam"
           \/ a.architecture = "vgg19" /\ a.optimizer = "sgd"
                /\ a.source_dataset = "cifar100"
        /\ a.random = "false" => a.seed = 0}

\* a dataset of one training batch and two test batches
Files(k) ==
    [train |-> <<TrainBatch(k)>>,
     test  |-> <<TestBatch(k + 1, 3), TestBatch(k + 2, 4)>>]

\* a dataset without training batches
NoTrainFiles == [train |-> <<>>, test |-> <<TestBatch(1, 3)>>]

DatasetFiles == {Files(k) : k \in 1..MaxPattern} \cup {NoTrainFiles}

(***************************************************************************)
(* Initial state: the script has parsed its arguments (line 170)           *)
(***************************************************************************)
NoParams == [i \in ParamIdx |-> <<>>]
NoOptimizer == [type |-> "none", lr |-> 0]
EmptyMap == [k \in {} |-> 0]

Init ==
    /\ args \in Unsupported \cup Runs
    /\ dataset_files \in DatasetFiles
    /\ fresh_params = FreshParams
    /\ init_snapshot \in Snapshots
    /\ dataloader_train = <<>>
    /\ dataloader_test = <<>>
    /\ num_classes_source = 0
    /\ num_classes_target = 0
    /\ model = NoParams
    /\ is_equal_classes = FALSE
    /\ num_epochs = 0
    /\ lr_anneal_epochs = {}
    /\ optimizer = NoOptimizer
    /\ pruning_iter = 0
    /\ epoch = 0
    /\ last_epoch = 0
    /\ batch_num = 0
    /\ masks = <<>>
    /\ threshold = 0
    /\ zeros = 0
    /\ total = 0
    /\ store = EmptyMap
    /\ test_accuracys = <<>>
    /\ test_losses = <<>>
    /\ rng = 0
    /\ pc = "seed"
    /\ error = ""
    /\ did = {}
    /\ round_log = <<>>
    /\ epochs_run = [i \in 0..LastRound |-> 0]
    /\ writes = EmptyMap
    /\ returns = <<>>
    /\ reported = [accuracys |-> <<>>, losses |-> <<>>]

(***************************************************************************)
(* Checkpoint files and the accumulated results                            *)
(***************************************************************************)
\* line 121: torch.save under models_path/{round}_{epoch}
SaveCheckpoint(files, key, cpt) ==
    [k \in DOMAIN files \cup {key} |-> IF k = key THEN cpt ELSE files[k]]

CountWrite(w, key) ==
    [k \in DOMAIN w \cup {key} |-> IF k = key
                                   THEN (IF key \in DOMAIN w THEN w[key] + 1 ELSE 1)
                                   ELSE w[k]]

\* line 58 with the test pruning_iter >= 0
HasPreviousRoundFromZero(i) == i >= 0

\* line 58
HasPreviousRound(i) == i # 0

\* line 83 with the flag compared to 'False'
RewindsCapitalised(rnd) == rnd = "False"

\* line 83
Rewinds(rnd) == rnd = "false"

\* line 114 with the epochs counted from zero
IsFinalEpochEarly(e, n) == e = n - 1

\* line 114
IsFinalEpoch(e, n) == e = n

\* line 125 with the test pruning_iter <= 7
EvaluatedThroughSeven(i) == i <= EvalDenseRounds \/ i % EvalStride = 0

\* line 125
Evaluated(i) == i < EvalDenseRounds \/ i % EvalStride = 0

\* a list element is a number, or a reference to a list of the function
Number(x) == [number |-> x]
ListRef(name) == [ref |-> name]

\* line 128: test_accuracys.append(test_accuracys)
AppendAccuracy(list, test_accuracy) == Append(list, ListRef("test_accuracys"))

\* line 129: test_losses.append(test_losses)
AppendLoss(list, test_loss) == Append(list, ListRef("test_losses"))

(***************************************************************************)
(* Actions                                                                 *)
(***************************************************************************)
\* line 173: random.seed(args.seed)
SeedRandom ==
    /\ pc = "seed"
    /\ rng' = args.seed
    /\ pc' = "load_dataset"
    /\ UNCHANGED <<args, dataset_files, fresh_params, init_snapshot,
                   dataloader_train, dataloader_test, num_classes_source,
                   num_classes_target, model, is_equal_classes, num_epochs,
                   lr_anneal_epochs, optimizer, pruning_iter, epoch, last_epoch,
                   batch_num, masks, threshold, zeros, total, store,
                   test_accuracys, test_losses, error, did, round_log,
                   epochs_run, writes, returns, reported>>

\* lines 182-183: both loaders of the target dataset are built
LoadDatasets ==
    /\ pc = "load_dataset"
    /\ dataloader_train' = dataset_files.train
    /\ dataloader_test' = dataset_files.test
    /\ did' = did \cup {"load_dataset"}
    /\ pc' = "classes"
    /\ UNCHANGED <<args, dataset_files, fresh_params, init_snapshot,
                   num_classes_source, num_classes_target, model,
                   is_equal_classes, num_epochs, lr_anneal_epochs, optimizer,
                   pruning_iter, epoch, last_epoch, batch_num, masks, threshold,
                   zeros, total, store, test_accuracys, test_losses, rng, error,
                   round_log, epochs_run, writes, returns, reported>>

\* lines 182-183: load_dataset may refuse a name it does not know
LoadDatasetsRaises ==
    /\ pc = "load_dataset"
    /\ ~KnownDataset(args.target_dataset)
    /\ error' = "dataset not supported"
    /\ pc' = "error"
    /\ UNCHANGED <<args, dataset_files, fresh_params, init_snapshot,
                   dataloader_train, dataloader_test, num_classes_source,
                   num_classes_target, model, is_equal_classes, num_epochs,
                   lr_anneal_epochs, optimizer, pruning_iter, epoch, last_epoch,
                   batch_num, masks, threshold, zeros, total, store,
                   test_accuracys, test_losses, rng, did, round_log, epochs_run,
                   writes, returns, reported>>

\* lines 186-198: the class counts of the source and target datasets
ResolveClasses ==
    /\ pc = "classes"
    /\ KnownDataset(args.source_dataset)
    /\ KnownDataset(args.target_dataset)
    /\ num_classes_source' = IF args.source_dataset \in SmallClassDatasets
                             THEN SmallClassCount ELSE LargeClassCount
    /\ num_classes_target' = IF args.target_dataset \in SmallClassDatasets
                             THEN SmallClassCount ELSE LargeClassCount
    /\ pc' = "load_model"
    /\ UNCHANGED <<args, dataset_files, fresh_params, init_snapshot,
                   dataloader_train, dataloader_test, model, is_equal_classes,
                   num_epochs, lr_anneal_epochs, optimizer, pruning_iter, epoch,
                   last_epoch, batch_num, masks, threshold, zeros, total, store,
                   test_accuracys, test_losses, rng, error, did, round_log,
                   epochs_run, writes, returns, reported>>

\* line 191
SourceDatasetRaises ==
    /\ pc = "classes"
    /\ ~KnownDataset(args.source_dataset)
    /\ error' = "source dataset not supported"
    /\ pc' = "error"
    /\ UNCHANGED <<args, dataset_files, fresh_params, init_snapshot,
                   dataloader_train, dataloader_test, num_classes_source,
                   num_classes_target, model, is_equal_classes, num_epochs,
                   lr_anneal_epochs, optimizer, pruning_iter, epoch, last_epoch,
                   batch_num, masks, threshold, zeros, total, store,
                   test_accuracys, test_losses, rng, did, round_log, epochs_run,
                   writes, returns, reported>>

\* line 198 (line 187 or 189 has set num_classes_source)
TargetDatasetRaises ==
    /\ pc = "classes"
    /\ KnownDataset(args.source_dataset)
    /\ ~KnownDataset(args.target_dataset)
    /\ num_classes_source' = IF args.source_dataset \in SmallClassDatasets
                             THEN SmallClassCount ELSE LargeClassCount
    /\ error' = "target dataset not supported"
    /\ pc' = "error"
    /\ UNCHANGED <<args, dataset_files, fresh_params, init_snapshot,
                   dataloader_train, dataloader_test, num_classes_target, model,
                   is_equal_classes, num_epochs, lr_anneal_epochs, optimizer,
                   pruning_iter, epoch, last_epoch, batch_num, masks, threshold,
                   zeros, total, store, test_accuracys, test_losses, rng, did,
                   round_log, epochs_run, writes, returns, reported>>

\* line 201: load_model constructs the network
LoadModel ==
    /\ pc = "load_model"
    /\ model' = fresh_params
    /\ did' = did \cup {"load_model"}
    /\ pc' = "call"
    /\ UNCHANGED <<args, dataset_files, fresh_params, init_snapshot,
                   dataloader_train, dataloader_test, num_classes_source,
                   num_classes_target, is_equal_classes, num_epochs,
                   lr_anneal_epochs, optimizer, pruning_iter, epoch, last_epoch,
                   batch_num, masks, threshold, zeros, total, store,
                   test_accuracys, test_losses, rng, error, round_log,
                   epochs_run, writes, returns, reported>>

\* line 201: load_model may refuse an architecture it does not know
LoadModelRaises ==
    /\ pc = "load_model"
    /\ ~KnownArchitecture(args.architecture)
    /\ error' = "architecture not supported"
    /\ pc' = "error"
    /\ UNCHANGED <<args, dataset_files, fresh_params, init_snapshot,
                   dataloader_train, dataloader_test, num_classes_source,
                   num_classes_target, model, is_equal_classes, num_epochs,
                   lr_anneal_epochs, optimizer, pruning_iter, epoch, last_epoch,
                   batch_num, masks, threshold, zeros, total, store,
                   test_accuracys, test_losses, rng, did, round_log, epochs_run,
                   writes, returns, reported>>

\* lines 206-209 and 34-48: the call, and the architecture's constants
EnterPrune ==
    /\ pc = "call"
    /\ KnownArchitecture(args.architecture)
    /\ is_equal_classes' = (num_classes_source = num_classes_target)
    /\ num_epochs' = IF args.architecture = "vgg19" THEN VggEpochs ELSE ResnetEpochs
    /\ lr_anneal_epochs' = IF args.architecture = "vgg19" THEN VggAnneal ELSE ResnetAnneal
    /\ test_accuracys' = <<>>
    /\ test_losses' = <<>>
    /\ pruning_iter' = 0
    /\ pc' = "round"
    /\ UNCHANGED <<args, dataset_files, fresh_params, init_snapshot,
                   dataloader_train, dataloader_test, num_classes_source,
                   num_classes_target, model, optimizer, epoch, last_epoch,
                   batch_num, masks, threshold, zeros, total, store, rng, error,
                   did, round_log, epochs_run, writes, returns, reported>>

\* line 41
ArchitectureRaises ==
    /\ pc = "call"
    /\ ~KnownArchitecture(args.architecture)
    /\ is_equal_classes' = (num_classes_source = num_classes_target)
    /\ error' = "architecture not supported"
    /\ pc' = "error"
    /\ UNCHANGED <<args, dataset_files, fresh_params, init_snapshot,
                   dataloader_train, dataloader_test, num_classes_source,
                   num_classes_target, model, num_epochs, lr_anneal_epochs,
                   optimizer, pruning_iter, epoch, last_epoch, batch_num, masks,
                   threshold, zeros, total, store, test_accuracys, test_losses,
                   rng, did, round_log, epochs_run, writes, returns, reported>>

\* lines 49-54: a round starts with a new optimizer
CreateOptimizer ==
    /\ pc = "round"
    /\ KnownOptimizer(args.optimizer)
    /\ optimizer' = [type |-> args.optimizer,
                     lr   |-> IF args.optimizer = "sgd" THEN SgdLr ELSE AdamLr]
    /\ round_log' = <<>>
    /\ pc' = IF HasPreviousRound(pruning_iter) THEN "load_checkpoint" ELSE "reset"
    /\ UNCHANGED <<args, dataset_files, fresh_params, init_snapshot,
                   dataloader_train, dataloader_test, num_classes_source,
                   num_classes_target, model, is_equal_classes, num_epochs,
                   lr_anneal_epochs, pruning_iter, epoch, last_epoch, batch_num,
                   masks, threshold, zeros, total, store, test_accuracys,
                   test_losses, rng, error, did, epochs_run, writes, returns,
                   reported>>

\* line 56
OptimizerRaises ==
    /\ pc = "round"
    /\ ~KnownOptimizer(args.optimizer)
    /\ error' = "optimizer not supported"
    /\ pc' = "error"
    /\ UNCHANGED <<args, dataset_files, fresh_params, init_snapshot,
                   dataloader_train, dataloader_test, num_classes_source,
                   num_classes_target, model, is_equal_classes, num_epochs,
                   lr_anneal_epochs, optimizer, pruning_iter, epoch, last_epoch,
                   batch_num, masks, threshold, zeros, total, store,
                   test_accuracys, test_losses, rng, did, round_log, epochs_run,
                   writes, returns, reported>>

\* lines 59-60: the previous round's checkpoint goes into the model
LoadCheckpoint ==
    /\ pc = "load_checkpoint"
    /\ <<pruning_iter - 1, last_epoch>> \in DOMAIN store
    /\ model' = store[<<pruning_iter - 1, last_epoch>>].model_state_dict
    /\ did' = did \cup {"checkpoint_read"}
    /\ round_log' = Append(round_log, "load_checkpoint")
    /\ pc' = "build_masks"
    /\ UNCHANGED <<args, dataset_files, fresh_params, init_snapshot,
                   dataloader_train, dataloader_test, num_classes_source,
                   num_classes_target, is_equal_classes, num_epochs,
                   lr_anneal_epochs, optimizer, pruning_iter, epoch, last_epoch,
                   batch_num, masks, threshold, zeros, total, store,
                   test_accuracys, test_losses, rng, error, epochs_run, writes,
                   returns, reported>>

\* lines 62-81: threshold, one mask per prunable tensor, the pruned count
BuildMasks ==
    /\ pc = "build_masks"
    /\ LET thr   == Threshold(model, pruning_iter)
           built == BuildFrom(model, thr, 1, args.random,
                              [masks |-> <<>>, zeros |-> 0, total |-> 0, rng |-> rng])
       IN  /\ threshold' = thr
           /\ masks' = built.masks
           /\ zeros' = built.zeros
           /\ total' = built.total
           /\ rng' = built.rng
    /\ round_log' = Append(round_log, "build_masks")
    /\ pc' = "reset"
    /\ UNCHANGED <<args, dataset_files, fresh_params, init_snapshot,
                   dataloader_train, dataloader_test, num_classes_source,
                   num_classes_target, model, is_equal_classes, num_epochs,
                   lr_anneal_epochs, optimizer, pruning_iter, epoch, last_epoch,
                   batch_num, store, test_accuracys, test_losses, error, did,
                   epochs_run, writes, returns, reported>>

\* lines 83-88: the snapshot is loaded unless the run is a random ticket
WeightReset ==
    /\ pc = "reset"
    /\ model' = IF Rewinds(args.random)
                THEN load_weights(model, init_snapshot, is_equal_classes)
                ELSE model
    /\ round_log' = IF Rewinds(args.random)
                    THEN Append(round_log, "weight_reset") ELSE round_log
    /\ epoch' = 0
    /\ pc' = "epoch"
    /\ UNCHANGED <<args, dataset_files, fresh_params, init_snapshot,
                   dataloader_train, dataloader_test, num_classes_source,
                   num_classes_target, is_equal_classes, num_epochs,
                   lr_anneal_epochs, optimizer, pruning_iter, last_epoch,
                   batch_num, masks, threshold, zeros, total, store,
                   test_accuracys, test_losses, rng, error, did, epochs_run,
                   writes, returns, reported>>

\* lines 91-94: the next epoch, and the learning rate's anneal
BeginEpoch ==
    /\ pc = "epoch"
    /\ epoch < num_epochs
    /\ epoch' = epoch + 1
    /\ last_epoch' = epoch + 1
    /\ optimizer' = IF epoch + 1 \in lr_anneal_epochs
                    THEN [optimizer EXCEPT !.lr = @ \div LrAnnealFactor]
                    ELSE optimizer
    /\ round_log' = IF epoch = 0 THEN Append(round_log, "train") ELSE round_log
    /\ batch_num' = 0
    /\ pc' = "batch"
    /\ UNCHANGED <<args, dataset_files, fresh_params, init_snapshot,
                   dataloader_train, dataloader_test, num_classes_source,
                   num_classes_target, model, is_equal_classes, num_epochs,
                   lr_anneal_epochs, pruning_iter, masks, threshold, zeros,
                   total, store, test_accuracys, test_losses, rng, error, did,
                   epochs_run, writes, returns, reported>>

\* lines 96-107: the next batch; the masks are applied before the forward pass
MaskBatch ==
    /\ pc = "batch"
    /\ batch_num < Len(dataloader_train)
    /\ model' = MaskedInput(model, masks, pruning_iter)
    /\ pc' = "forward"
    /\ UNCHANGED <<args, dataset_files, fresh_params, init_snapshot,
                   dataloader_train, dataloader_test, num_classes_source,
                   num_classes_target, is_equal_classes, num_epochs,
                   lr_anneal_epochs, optimizer, pruning_iter, epoch, last_epoch,
                   batch_num, masks, threshold, zeros, total, store,
                   test_accuracys, test_losses, rng, error, did, round_log,
                   epochs_run, writes, returns, reported>>

\* lines 109-112: forward, loss, backward, optimizer step
StepBatch ==
    /\ pc = "forward"
    /\ model' = OptimizerStep(model, dataloader_train[batch_num + 1], optimizer)
    /\ batch_num' = batch_num + 1
    /\ did' = did \cup {"train_step"}
    /\ pc' = "batch"
    /\ UNCHANGED <<args, dataset_files, fresh_params, init_snapshot,
                   dataloader_train, dataloader_test, num_classes_source,
                   num_classes_target, is_equal_classes, num_epochs,
                   lr_anneal_epochs, optimizer, pruning_iter, epoch, last_epoch,
                   masks, threshold, zeros, total, store, test_accuracys,
                   test_losses, rng, error, round_log, epochs_run, writes,
                   returns, reported>>

\* lines 114-123: after the last batch; the final epoch masks and saves
EndEpoch ==
    /\ pc = "batch"
    /\ batch_num = Len(dataloader_train)
    /\ LET final  == IsFinalEpoch(epoch, num_epochs)
           masked == IF final THEN FinalMasked(model, masks, pruning_iter) ELSE model
           key    == <<pruning_iter, epoch>>
       IN  /\ model' = masked
           /\ store' = IF final
                       THEN SaveCheckpoint(store, key,
                                [epoch |-> epoch, model_state_dict |-> masked,
                                 optimizer_state_dict |-> optimizer])
                       ELSE store
           /\ writes' = IF final THEN CountWrite(writes, key) ELSE writes
           /\ did' = IF final THEN did \cup {"checkpoint_write"} ELSE did
           /\ round_log' = IF final THEN Append(round_log, "save_checkpoint") ELSE round_log
           /\ pc' = "epoch"
    /\ epochs_run' = [epochs_run EXCEPT ![pruning_iter] = @ + 1]
    /\ UNCHANGED <<args, dataset_files, fresh_params, init_snapshot,
                   dataloader_train, dataloader_test, num_classes_source,
                   num_classes_target, is_equal_classes, num_epochs,
                   lr_anneal_epochs, optimizer, pruning_iter, epoch, last_epoch,
                   batch_num, masks, threshold, zeros, total, test_accuracys,
                   test_losses, rng, error, returns, reported>>

\* lines 125-129 once the epochs are exhausted, and the round loop's next iteration
Evaluate ==
    /\ pc = "epoch"
    /\ epoch >= num_epochs
    /\ IF Evaluated(pruning_iter)
       THEN LET r == test(model, dataloader_test)
            IN  /\ test_accuracys' = AppendAccuracy(test_accuracys, r.test_accuracy)
                /\ test_losses' = AppendLoss(test_losses, r.test_loss)
                /\ returns' = Append(returns, [round |-> pruning_iter,
                                               test_loss |-> r.test_loss,
                                               test_accuracy |-> r.test_accuracy])
                /\ round_log' = Append(round_log, "evaluate")
       ELSE UNCHANGED <<test_accuracys, test_losses, returns, round_log>>
    /\ pruning_iter' = IF pruning_iter < LastRound THEN pruning_iter + 1 ELSE pruning_iter
    /\ pc' = IF pruning_iter < LastRound THEN "round" ELSE "report"
    /\ UNCHANGED <<args, dataset_files, fresh_params, init_snapshot,
                   dataloader_train, dataloader_test, num_classes_source,
                   num_classes_target, model, is_equal_classes, num_epochs,
                   lr_anneal_epochs, optimizer, epoch, last_epoch, batch_num,
                   masks, threshold, zeros, total, store, rng, error, did,
                   epochs_run, writes, reported>>

\* lines 131-133
Report ==
    /\ pc = "report"
    /\ reported' = [accuracys |-> test_accuracys, losses |-> test_losses]
    /\ pc' = "done"
    /\ UNCHANGED <<args, dataset_files, fresh_params, init_snapshot,
                   dataloader_train, dataloader_test, num_classes_source,
                   num_classes_target, model, is_equal_classes, num_epochs,
                   lr_anneal_epochs, optimizer, pruning_iter, epoch, last_epoch,
                   batch_num, masks, threshold, zeros, total, store,
                   test_accuracys, test_losses, rng, error, did, round_log,
                   epochs_run, writes, returns>>

Next ==
    \/ SeedRandom
    \/ LoadDatasets
    \/ LoadDatasetsRaises
    \/ ResolveClasses
    \/ SourceDatasetRaises
    \/ TargetDatasetRaises
    \/ LoadModel
    \/ LoadModelRaises
    \/ EnterPrune
    \/ ArchitectureRaises
    \/ CreateOptimizer
    \/ OptimizerRaises
    \/ LoadCheckpoint
    \/ BuildMasks
    \/ WeightReset
    \/ BeginEpoch
    \/ MaskBatch
    \/ StepBatch
    \/ EndEpoch
    \/ Evaluate
    \/ Report

Spec == Init /\ [][Next]_vars

\* Termination is followed on two complete runs, one per architecture, and on
\* the unsupported command lines.  The script is one thread that runs until it
\* returns or raises: a step that can be taken is eventually taken.
LiveInit ==
    /\ Init
    /\ init_snapshot = SnapshotA
    /\ \/ /\ args = [architecture |-> "resnet50", optimizer |-> "adam",
                      source_dataset |-> "cifar10", target_dataset |-> "cifar10",
                      random |-> "false", seed |-> 0]
          /\ dataset_files = Files(1)
       \/ /\ args = [architecture |-> "vgg19", optimizer |-> "sgd",
                      source_dataset |-> "cifar100", target_dataset |-> "cifar10",
                      random |-> "true", seed |-> 1]
          /\ dataset_files = NoTrainFiles
       \/ /\ args \in Unsupported
          /\ args.random = "false"
          /\ dataset_files = NoTrainFiles

FairSpec == LiveInit /\ [][Next]_vars /\ WF_vars(Next)

(***************************************************************************)
(* Properties                                                              *)
(***************************************************************************)
\* every position whose mask entry is 0 holds exactly zero
MaskedZero(m, ms) ==
    \A k \in 1..Len(WeightIdx) : \A j \in 1..Len(ms[k]) :
        ms[k][j] = 0 => m[WeightIdx[k]][j] = 0

\* a pruned position that the batch's update moves away from zero
PerturbedPrunedPosition(m, ms, batch) ==
    \E k \in 1..Len(WeightIdx) : \E j \in 1..Len(ms[k]) :
        /\ ms[k][j] = 0
        /\ OptimizerStep(ApplyMasks(m, ms), batch, optimizer)[WeightIdx[k]][j] # 0

\* the epochs of the current round are exhausted and its checkpoint written
RoundTrained == pc = "epoch" /\ num_epochs > 0 /\ epoch = num_epochs

\* the state right after an optimizer step (line 112)
AfterStep == pc = "batch" /\ batch_num > 0

\* C1 as stated: in every round 1..30, in the state immediately after each
\* optimizer step, every position of a prunable tensor whose mask entry is 0
\* holds exactly zero.
C1_ZeroAfterEveryStep ==
    (AfterStep /\ pruning_iter >= 1) => MaskedZero(model, masks)

\* C1 amended: in every round 1..30, in the state each forward pass is
\* computed in (after the mask multiply of lines 102-107), every position of
\* a prunable tensor whose mask entry is 0 holds exactly zero.
C1_ZeroAtForwardPass ==
    (pc = "forward" /\ pruning_iter >= 1) => MaskedZero(model, masks)

C1_Witness ==
    /\ pc = "forward"
    /\ pruning_iter >= 1
    /\ epoch >= 2
    /\ PerturbedPrunedPosition(model, masks, dataloader_train[batch_num + 1])

\* C2: in the non-random variant, a mask built in round r >= 2 is 0 wherever
\* the mask of round r-1 is 0: masks only shrink.
C2_MasksOnlyShrink ==
    [][(pc = "build_masks" /\ pc' = "reset" /\ pruning_iter >= 2
            /\ args.random = "false")
        => \A k \in 1..Len(masks) : \A j \in 1..Len(masks[k]) :
               masks[k][j] = 0 => masks'[k][j] = 0]_vars

C2_Witness ==
    /\ pc = "reset"
    /\ pruning_iter >= 2
    /\ args.random = "false"
    /\ zeros > 0
    /\ zeros < total
    /\ threshold = 0

\* the orchestrator's steps of a round i >= 1, in order
RoundSteps(rnd) ==
    <<"load_checkpoint", "build_masks">>
    \o (IF rnd = "false" THEN <<"weight_reset">> ELSE <<>>)
    \o <<"train", "save_checkpoint">>

IsPrefix(s, t) == Len(s) <= Len(t) /\ \A k \in 1..Len(s) : s[k] = t[k]

\* the round whose steps round_log holds
LoggedRound == IF pc = "round" THEN pruning_iter - 1 ELSE pruning_iter

\* C3: in every round 1..30 the steps are, in this order: read the checkpoint
\* of round i-1 under key (i-1, epoch budget), which exists; build the masks;
\* Weight Reset if and only if the run is not a random ticket; train; write
\* the checkpoint.
C3_RoundOrder ==
    /\ (LoggedRound >= 1 /\ pc \notin {"error"}) =>
          /\ IsPrefix(round_log, RoundSteps(args.random) \o <<"evaluate">>)
          /\ RoundTrained => IsPrefix(RoundSteps(args.random), round_log)
    /\ pc = "load_checkpoint" =>
          /\ last_epoch = num_epochs
          /\ <<pruning_iter - 1, num_epochs>> \in DOMAIN store
    /\ args.random # "false" =>
          \A k \in 1..Len(round_log) : round_log[k] # "weight_reset"

C3_Witness ==
    /\ pruning_iter >= 1
    /\ RoundTrained
    /\ args.random = "false"
    /\ round_log = <<"load_checkpoint", "build_masks", "weight_reset",
                     "train", "save_checkpoint">>

\* the script is in round 0, past the optimizer's construction
InRoundZero == pruning_iter = 0 /\ pc \in {"reset", "epoch", "batch", "forward"}

\* the state of the first training step of a round
FirstStep == pc = "forward" /\ epoch = 1 /\ batch_num = 0

Logged(e) == \E k \in 1..Len(round_log) : round_log[k] = e

\* C4 as stated: in round 0, in both modes, no checkpoint is read, no mask is
\* built or applied, Weight Reset is not invoked, and the first training step
\* works on the parameters the model had when the orchestrator was entered.
C4_RoundZeroUntouched ==
    InRoundZero =>
        /\ ~Logged("load_checkpoint")
        /\ ~Logged("build_masks")
        /\ ~Logged("weight_reset")
        /\ FirstStep => model = fresh_params

\* C4 amended: in round 0 no checkpoint is read and no mask is built or
\* applied; Weight Reset is invoked if and only if the run is not a random
\* ticket; the first training step works on the entry parameters in random
\* mode and on the snapshot's values (but for an excluded classification
\* layer) otherwise.
C4_RoundZero ==
    /\ pruning_iter = 0 => pc \notin {"load_checkpoint", "build_masks"}
    /\ InRoundZero =>
        /\ ~Logged("load_checkpoint")
        /\ ~Logged("build_masks")
        /\ "checkpoint_read" \notin did
        /\ masks = <<>>
        /\ pc # "reset" => (Logged("weight_reset") <=> args.random = "false")
        /\ FirstStep =>
             model = IF args.random = "false"
                     THEN load_weights(fresh_params, init_snapshot, is_equal_classes)
                     ELSE fresh_params

C4_Witness ==
    /\ InRoundZero
    /\ FirstStep
    /\ args.random = "false"
    /\ Logged("weight_reset")
    /\ model # fresh_params

\* the masks have just been built (line 81)
MasksBuilt == pc = "reset" /\ pruning_iter >= 1

\* the entries of the built masks follow the threshold
EntriesFollowThreshold ==
    \A k \in 1..Len(WeightIdx) : \A j \in 1..Len(masks[k]) :
        masks[k][j] = 1 <=> Abs(model[WeightIdx[k]][j]) * FScale > threshold

\* C5 as stated: each mask entry is 1 exactly where |weight| exceeds the
\* round's threshold, and zeros/total equals the schedule's percentile.
C5_FractionEqualsPercentile ==
    MasksBuilt =>
        /\ args.random = "false" => EntriesFollowThreshold
        /\ zeros * FScale = weight_fractions[pruning_iter] * total

\* C5 amended: each mask entry (before any permutation) is 1 exactly where
\* |weight| exceeds the round's threshold; zeros counts the weights at or
\* below the threshold and total all prunable weights; zeros is at least
\* floor((total - 1) * percentile / 100) + 1, and exceeds it when magnitudes
\* tie at the threshold.
C5_MaskAndCount ==
    MasksBuilt =>
        LET w == AbsSeq(flat_model_weights(model))
        IN  /\ args.random = "false" => EntriesFollowThreshold
            /\ total = Len(w)
            /\ zeros = Cardinality({j \in 1..Len(w) : w[j] * FScale <= threshold})
            /\ zeros >= ((total - 1) * weight_fractions[pruning_iter]) \div FScale + 1

C5_Witness ==
    /\ MasksBuilt
    /\ pruning_iter >= 2
    /\ args.random = "false"
    /\ zeros * FScale > weight_fractions[pruning_iter] * total
    /\ zeros > ((total - 1) * weight_fractions[pruning_iter]) \div FScale + 1
    /\ zeros < total

\* the rounds C6 names
EvaluatedRounds == (0..6) \cup {9, 12, 15, 18, 21, 24, 27, 30}

\* the rounds whose end the script has passed
FinishedRounds ==
    IF pc \in {"report", "done"} THEN 0..LastRound ELSE 0..(pruning_iter - 1)

\* C6: Evaluation runs exactly once at the end of each round of
\* {0..6, 9, 12, ..., 30}, after the round's epochs and checkpoint write, and
\* in no other round: 15 evaluations in a full run.
C6_EvaluationRounds ==
    /\ {returns[k].round : k \in 1..Len(returns)} = EvaluatedRounds \cap FinishedRounds
    /\ Len(returns) = Cardinality(EvaluatedRounds \cap FinishedRounds)
    /\ Logged("evaluate") =>
          /\ Len(round_log) >= 3
          /\ round_log[Len(round_log)] = "evaluate"
          /\ round_log[Len(round_log) - 1] = "save_checkpoint"
          /\ round_log[Len(round_log) - 2] = "train"
          /\ epochs_run[LoggedRound] = num_epochs
    /\ pc = "done" => Len(returns) = 15

C6_Witness == pc = "done" /\ Len(returns) = 15 /\ returns[8].round = 9

IsNumber(e, x) == "number" \in DOMAIN e /\ e.number = x

\* C7: when round 30 completes, the reported accuracy and loss sequences hold
\* one entry per evaluated round, in round order, the k-th being the value
\* Evaluation returned for the k-th evaluated round.
C7_ReportedSequences ==
    pc = "done" =>
        /\ Len(reported.accuracys) = Len(returns)
        /\ Len(reported.losses) = Len(returns)
        /\ \A k \in 1..Len(returns) :
              /\ IsNumber(reported.accuracys[k], returns[k].test_accuracy)
              /\ IsNumber(reported.losses[k], returns[k].test_loss)

\* C8 as stated: an unsupported architecture, optimizer, source or target
\* dataset ends the run with an error raised before any dataset loading, model
\* construction, training step, or checkpoint read or write.
C8_ErrorBeforeAnything == pc = "error" => did = {}

\* C8 amended: an unsupported name ends the run with an error raised before
\* any training step and any checkpoint read or write; the datasets may have
\* been loaded and the model constructed by then.
C8_ErrorBeforeTraining ==
    /\ ~Supported(args) =>
          /\ pc \in {"seed", "load_dataset", "classes", "load_model", "call",
                     "round", "error"}
          /\ pruning_iter = 0
          /\ did \subseteq {"load_dataset", "load_model"}
          /\ store = EmptyMap
    /\ pc = "error" => ~Supported(args)

C8_Witness ==
    /\ pc = "error"
    /\ error = "optimizer not supported"
    /\ did = {"load_dataset", "load_model"}

\* the epoch budget C9 names
EpochBudget == IF args.architecture = "vgg19" THEN 160 ELSE 90

\* C9: a supported run ends after round 30, with the architecture's epoch
\* budget run in each of the 31 rounds and exactly one checkpoint written per
\* round, at the round's final epoch, under the key (round, final epoch).
C9_Terminates ==
    Supported(args) =>
        <>( /\ pc = "done"
            /\ pruning_iter = 30
            /\ \A r \in 0..30 : epochs_run[r] = EpochBudget
            /\ DOMAIN writes = {<<r, EpochBudget>> : r \in 0..30}
            /\ \A key \in DOMAIN writes : writes[key] = 1
            /\ DOMAIN store = DOMAIN writes
            /\ \A key \in DOMAIN store : store[key].epoch = EpochBudget )

C9_Witness ==
    /\ pc = "done"
    /\ Cardinality(DOMAIN writes) = 31
    /\ epochs_run[30] = EpochBudget
    /\ Len(dataloader_train) > 0

\* C10: in every round 1..30, the checkpoint of the round and the model given
\* to Evaluation hold exactly zero wherever the round's mask is 0.
C10_CheckpointAndEvaluationMasked ==
    (pruning_iter >= 1 /\ RoundTrained) =>
        /\ MaskedZero(model, masks)
        /\ <<pruning_iter, num_epochs>> \in DOMAIN store
        /\ MaskedZero(store[<<pruning_iter, num_epochs>>].model_state_dict, masks)

C10_Witness ==
    /\ pruning_iter >= 1
    /\ RoundTrained
    /\ Len(dataloader_train) > 0
    /\ PerturbedPrunedPosition(model, masks, dataloader_train[Len(dataloader_train)])

====
